---- MODULE Spec2Model ----
(***************************************************************************)
(* A model of the smart-glasses demo: the VoiceAssistant mode matcher,     *)
(* the navigation guidance heuristic (method and free function), the       *)
(* reading and object-detection wrappers, and the run_demo driver loop.    *)
(* Python strings are TLA+ strings handled character by character;         *)
(* Optional[T] is a sequence of length 0 (None) or 1.                      *)
(***************************************************************************)
EXTENDS Integers, Sequences, FiniteSets, TLC

VARIABLES
    \* VoiceAssistant / CommandConfig
    phrases_by_mode,   \* the phrase table, in dict iteration order
    active_mode,       \* VoiceAssistant._active_mode
    vstatus,           \* "new" | "ok" | "ValueError": outcome of construction
    ctor_args,         \* the table keys and initial mode the constructor was given
    vresult,           \* the last ModeSwitchResult (None before any dispatch)
    prior_mode,        \* active mode at the start of the last dispatch
    \* ScriptedTranscriber
    transcripts,       \* ScriptedTranscriber._transcripts
    index,             \* ScriptedTranscriber._index
    \* NavigationAssistant and choose_direction_from_obstacles
    in_obstacles,      \* the obstacle sequence under consideration
    in_width,          \* the frame_width argument under consideration
    nstatus,           \* "new" | "ok" | "ValueError": NavigationAssistant(...)
    frame_width,       \* NavigationAssistant._frame_width
    nresult,           \* the last GuidanceResult (None before any frame)
    fresult,           \* outcome of choose_direction_from_obstacles (None before)
    \* ReadingAssistant
    ocr_text,          \* what the OCR engine returns
    fallback_message,  \* ReadingAssistant._fallback_message (Optional[str])
    rresult,           \* the last ReadingResult (None before any frame)
    \* ObjectDetectionAssistant
    objects,           \* what the object detector returns
    oresult,           \* the last DetectionResult (None before any frame)
    \* audio output
    messages,          \* the ordered log of spoken messages
    mark,              \* length of the log when the last operation started
    \* run_demo
    pc,                \* "idle" | "loop" | "done"
    iter               \* iterations of the run_demo loop completed

voiceVars == <<phrases_by_mode, active_mode, vstatus, ctor_args, vresult, prior_mode>>
scriptVars == <<transcripts, index>>
navVars == <<in_obstacles, in_width, nstatus, frame_width, nresult, fresult>>
readVars == <<ocr_text, fallback_message, rresult>>
objVars == <<objects, oresult>>
audioVars == <<messages, mark>>
demoVars == <<pc, iter>>
vars == <<voiceVars, scriptVars, navVars, readVars, objVars, audioVars, demoVars>>

----------------------------------------------------------------------------
(* Optional values *)

None == <<>>
Some(v) == <<v>>

\* Python truthiness of an Optional[str]: neither None nor the empty string.
Truthy(opt) == opt # None /\ opt[1] # ""

----------------------------------------------------------------------------
(* Python string operations, character by character *)

UpperChars == "ABCDEFGHIJKLMNOPQRSTUVWXYZ"
LowerChars == "abcdefghijklmnopqrstuvwxyz"

Whitespace == {" ", "\t", "\n"}

IsSpace(c) == c \in Whitespace

CharAt(s, i) == SubSeq(s, i, i)

UpperSet == {CharAt(UpperChars, i) : i \in 1..Len(UpperChars)}

\* Each upper-case letter's lower-case letter (a table, evaluated once).
LowerTable ==
    [c \in UpperSet |->
        CharAt(LowerChars, CHOOSE i \in 1..Len(UpperChars) : CharAt(UpperChars, i) = c)]

LowerChar(c) == IF c \in UpperSet THEN LowerTable[c] ELSE c

RECURSIVE LowerFrom(_, _)
LowerFrom(s, i) ==
    IF i > Len(s) THEN "" ELSE LowerChar(CharAt(s, i)) \o LowerFrom(s, i + 1)

\* str.lower()
StrLower(s) == LowerFrom(s, 1)

\* str.split() with no separator: the maximal runs of non-whitespace.
RECURSIVE SplitFrom(_, _, _, _)
SplitFrom(s, i, word, acc) ==
    IF i > Len(s)
    THEN IF word = "" THEN acc ELSE Append(acc, word)
    ELSE IF IsSpace(CharAt(s, i))
         THEN SplitFrom(s, i + 1, "", IF word = "" THEN acc ELSE Append(acc, word))
         ELSE SplitFrom(s, i + 1, word \o CharAt(s, i), acc)

StrSplit(s) == SplitFrom(s, 1, "", <<>>)

\* sep.join(words)
RECURSIVE JoinFrom(_, _, _)
JoinFrom(sep, words, i) ==
    IF i > Len(words) THEN ""
    ELSE IF i = Len(words) THEN words[i]
    ELSE words[i] \o sep \o JoinFrom(sep, words, i + 1)

StrJoin(sep, words) == JoinFrom(sep, words, 1)

\* `phrase in transcript`: substring containment; the empty string is in every string.
StrContains(s, p) ==
    \E i \in 1..(Len(s) - Len(p) + 1) : SubSeq(s, i, i + Len(p) - 1) = p

\* str.strip(): leading and trailing whitespace removed.
RECURSIVE LStrip(_)
LStrip(s) ==
    IF s # "" /\ IsSpace(CharAt(s, 1)) THEN LStrip(SubSeq(s, 2, Len(s))) ELSE s

RECURSIVE RStrip(_)
RStrip(s) ==
    IF s # "" /\ IsSpace(CharAt(s, Len(s))) THEN RStrip(SubSeq(s, 1, Len(s) - 1)) ELSE s

StrStrip(s) == RStrip(LStrip(s))

\* Strings built from at most n pieces of a set, concatenated.
RECURSIVE Concats(_, _)
Concats(pieces, n) ==
    IF n = 0 THEN {""}
    ELSE Concats(pieces, n - 1) \cup {u \o p : u \in Concats(pieces, n - 1), p \in pieces}

\* Sequences over a set of length at most n.
RECURSIVE SeqsUpTo(_, _)
SeqsUpTo(S, n) ==
    IF n = 0 THEN {<<>>}
    ELSE SeqsUpTo(S, n - 1) \cup {Append(q, e) : q \in SeqsUpTo(S, n - 1), e \in S}

----------------------------------------------------------------------------
(* voice_assistance.py *)

MODES == <<"navigation", "object_detection", "reading">>

ModeSet == {MODES[i] : i \in 1..Len(MODES)}

\* CommandConfig's default phrase table.
DefaultPhrases ==
    << [mode |-> "navigation",
        phrases |-> <<"navigation mode", "switch to navigation", "navigation">>],
       [mode |-> "object_detection",
        phrases |-> <<"object detection mode", "switch to object detection",
                      "object detection", "object mode">>],
       [mode |-> "reading",
        phrases |-> <<"reading mode", "switch to reading", "reading", "read mode">>] >>

\* The keys of a phrase table, in iteration order.
Keys(table) == [k \in 1..Len(table) |-> table[k].mode]

\* CommandConfig.__post_init__: every key of the table is a supported mode.
PostInitOk(table) == \A k \in 1..Len(table) : table[k].mode \in ModeSet

\* The inner loop of _match_mode: some phrase of the entry is in the transcript.
RECURSIVE PhraseLoop(_, _, _)
PhraseLoop(phrases, j, transcript) ==
    IF j > Len(phrases) THEN FALSE
    ELSE IF StrContains(transcript, phrases[j]) THEN TRUE
    ELSE PhraseLoop(phrases, j + 1, transcript)

\* The outer loop of _match_mode, from entry k of the table on.
RECURSIVE ModeLoop(_, _, _)
ModeLoop(table, k, transcript) ==
    IF k > Len(table) THEN None
    ELSE IF PhraseLoop(table[k].phrases, 1, transcript) THEN Some(table[k].mode)
    ELSE ModeLoop(table, k + 1, transcript)

\* (mutant) the last matching entry of the table wins
RECURSIVE ModeLoop_Last(_, _, _)
ModeLoop_Last(table, k, transcript) ==
    IF k < 1 THEN None
    ELSE IF PhraseLoop(table[k].phrases, 1, transcript) THEN Some(table[k].mode)
    ELSE ModeLoop_Last(table, k - 1, transcript)

MatchMode_Last(table, transcript) == ModeLoop_Last(table, Len(table), transcript)

MatchMode(table, transcript) == ModeLoop(table, 1, transcript)

\* (mutant) without lower()
Normalize_NoLower(transcript) == StrJoin(" ", StrSplit(transcript))

\* " ".join(transcript.lower().split())
Normalize(transcript) == StrJoin(" ", StrSplit(StrLower(transcript)))

\* ScriptedTranscriber.listen: the next scripted transcript, or "" once exhausted.
Listen == IF index >= Len(transcripts) THEN "" ELSE transcripts[index + 1]

ListenIndex == IF index >= Len(transcripts) THEN index ELSE index + 1

\* (mutant) the initial mode is not checked
ConstructOutcome_NoModeCheck(table, initial_mode) ==
    IF ~PostInitOk(table) THEN "ValueError" ELSE "ok"

\* The outcome of VoiceAssistant(transcriber, CommandConfig(table), initial_mode):
\* CommandConfig is built first, then __init__ checks the initial mode.
ConstructOutcome(table, initial_mode) ==
    IF ~PostInitOk(table) THEN "ValueError"
    ELSE IF initial_mode \notin ModeSet THEN "ValueError"
    ELSE "ok"

(* Inputs of the voice specification *)

MaxPieces == 2

TranscriptPieces == {"reading ", "NAVIGATION", " Object \t Mode", "go"}

Transcripts == Concats(TranscriptPieces, MaxPieces)

Scripts == {<<>>, <<"reading now", " GO  ">>}

\* Inputs of run_demo: scripts of at most MaxScript transcripts.
MaxScript == 3

DemoPool ==
    {"switch to navigation", "switch to object detection", "switch to reading",
     "reading then navigation", "  SWITCH   TO Reading ", "hello"}

DemoScripts == SeqsUpTo(DemoPool, MaxScript)

\* reading before navigation, no object_detection entry, "read" inside "reading"
ReorderedTable ==
    << [mode |-> "reading", phrases |-> <<"read", "object mode">>],
       [mode |-> "navigation", phrases |-> <<"go", "navigation">>] >>

\* a mode with no phrase, and a mode with the empty phrase
SparseTable ==
    << [mode |-> "object_detection", phrases |-> <<>>],
       [mode |-> "reading", phrases |-> <<"reading">>],
       [mode |-> "navigation", phrases |-> <<"">>] >>

\* a key outside MODES
BadTable ==
    << [mode |-> "navigation", phrases |-> <<"navigation">>],
       [mode |-> "music", phrases |-> <<"go">>] >>

Tables == {DefaultPhrases, ReorderedTable, SparseTable, BadTable}

InitialModes == ModeSet \cup {"music"}

\* Every transcript of the model: those dispatched directly, the scripted ones,
\* and the "" an exhausted ScriptedTranscriber returns.
KnownTranscripts ==
    Transcripts \cup {""} \cup UNION {{q[i] : i \in 1..Len(q)} : q \in Scripts \cup DemoScripts}

\* _match_mode(" ".join(transcript.lower().split())) for every table and transcript
\* of the model, evaluated once.
Matched ==
    [table \in Tables, transcript \in KnownTranscripts |->
        MatchMode(table, Normalize(transcript))]

\* (mutant) no match falls back to the first mode
NextActiveMode_Reset(current, matched_mode) ==
    IF Truthy(matched_mode) THEN matched_mode[1] ELSE MODES[1]

\* The mode handle_transcript leaves active.
NextActiveMode(current, matched_mode) ==
    IF Truthy(matched_mode) THEN matched_mode[1] ELSE current

ModeSwitchResult(transcript, matched_mode, mode) ==
    [transcript |-> transcript, matched_command |-> matched_mode, active_mode |-> mode]

\* VoiceAssistant.handle_transcript, as a state change.
Handle(transcript) ==
    LET matched_mode == Matched[phrases_by_mode, transcript]
        mode == NextActiveMode(active_mode, matched_mode)
    IN  /\ active_mode' = mode
        /\ vresult' = Some(ModeSwitchResult(transcript, matched_mode, mode))
        /\ prior_mode' = active_mode
        /\ UNCHANGED <<phrases_by_mode, vstatus, ctor_args>>

VoiceIdle ==
    /\ phrases_by_mode = <<>>
    /\ active_mode = ""
    /\ vstatus = "new"
    /\ ctor_args = None
    /\ vresult = None
    /\ prior_mode = ""

ScriptIdle == transcripts = <<>> /\ index = 0

\* VoiceAssistant(ScriptedTranscriber(script), CommandConfig(table), initial_mode)
NewVoiceAssistant ==
    /\ vstatus = "new"
    /\ \E table \in Tables, initial_mode \in InitialModes, script \in Scripts :
        /\ ctor_args' = Some([keys |-> Keys(table), initial_mode |-> initial_mode])
        /\ vstatus' = ConstructOutcome(table, initial_mode)
        /\ IF ConstructOutcome(table, initial_mode) = "ok"
           THEN /\ phrases_by_mode' = table
                /\ active_mode' = initial_mode
                /\ prior_mode' = initial_mode
                /\ transcripts' = script
           ELSE UNCHANGED <<phrases_by_mode, active_mode, prior_mode, transcripts>>
    /\ UNCHANGED <<vresult, index>>
    /\ UNCHANGED <<navVars, readVars, objVars, audioVars, demoVars>>

\* voice_assistant.handle_transcript(transcript)
HandleTranscript ==
    /\ vstatus = "ok"
    /\ pc = "idle"
    /\ \E transcript \in Transcripts : Handle(transcript)
    /\ UNCHANGED <<scriptVars, navVars, readVars, objVars, audioVars, demoVars>>

\* voice_assistant.listen_and_handle(audio_source)
ListenAndHandle ==
    /\ vstatus = "ok"
    /\ pc = "idle"
    /\ Handle(Listen)
    /\ index' = ListenIndex
    /\ UNCHANGED <<transcripts, navVars, readVars, objVars, audioVars, demoVars>>

----------------------------------------------------------------------------
(* navigation.py *)

audio_guidance == <<"left", "right", "forward">>

\* Obstacle(bbox, label, confidence); a confidence of 0.91 is written 91.
Obstacle(bbox, label, confidence) ==
    [bbox |-> bbox, label |-> label, confidence |-> confidence]

\* Python's true division n / 2 of an int, kept exact as numerator and denominator.
Half(n) == [num |-> n, den |-> 2]

\* a < b on exact fractions with positive denominators
FracLess(a, b) == a.num * b.den < b.num * a.den

\* center_x = (obstacle.bbox[0] + obstacle.bbox[2]) / 2; bbox is 0-indexed in Python.
CenterX(obstacle) == Half(obstacle.bbox[1] + obstacle.bbox[3])

\* The counting loop of NavigationAssistant._compute_guidance.
RECURSIVE GuidanceLoop(_, _, _, _, _)
GuidanceLoop(obstacles, i, width, left_count, right_count) ==
    IF i > Len(obstacles) THEN [left_count |-> left_count, right_count |-> right_count]
    ELSE IF FracLess(CenterX(obstacles[i]), Half(width))
         THEN GuidanceLoop(obstacles, i + 1, width, left_count + 1, right_count)
         ELSE GuidanceLoop(obstacles, i + 1, width, left_count, right_count + 1)

\* (mutant) an obstacle centered on the midpoint counts as left-side
ComputeGuidance_Lte(obstacles, width) ==
    LET left_count == Cardinality({i \in 1..Len(obstacles) :
                          ~FracLess(Half(width), CenterX(obstacles[i]))})
        right_count == Len(obstacles) - left_count
    IN  IF left_count > right_count THEN "right"
        ELSE IF right_count > left_count THEN "left"
        ELSE "forward"

\* (mutant) steers towards the denser side
ComputeGuidance_Swapped(obstacles, width) ==
    LET counts == GuidanceLoop(obstacles, 1, width, 0, 0)
    IN  IF counts.left_count > counts.right_count THEN "left"
        ELSE IF counts.right_count > counts.left_count THEN "right"
        ELSE "forward"

\* NavigationAssistant._compute_guidance, with self._frame_width as width.
ComputeGuidance(obstacles, width) ==
    IF obstacles = <<>> THEN "forward"
    ELSE LET counts == GuidanceLoop(obstacles, 1, width, 0, 0)
         IN  IF counts.left_count > counts.right_count THEN "right"
             ELSE IF counts.right_count > counts.left_count THEN "left"
             ELSE "forward"

\* The counting loop of choose_direction_from_obstacles.
RECURSIVE ChooseLoop(_, _, _, _, _)
ChooseLoop(obstacle_list, i, width, left_count, right_count) ==
    IF i > Len(obstacle_list) THEN [left_count |-> left_count, right_count |-> right_count]
    ELSE IF FracLess(CenterX(obstacle_list[i]), Half(width))
         THEN ChooseLoop(obstacle_list, i + 1, width, left_count + 1, right_count)
         ELSE ChooseLoop(obstacle_list, i + 1, width, left_count, right_count + 1)

\* (mutant) floor division (//) in place of true division (/)
ChooseDirection_Trunc(obstacle_list, width) ==
    IF width <= 0 THEN "ValueError"
    ELSE LET left_count == Cardinality({i \in 1..Len(obstacle_list) :
                (obstacle_list[i].bbox[1] + obstacle_list[i].bbox[3]) \div 2 < width \div 2})
             right_count == Len(obstacle_list) - left_count
         IN  IF left_count > right_count THEN "right"
             ELSE IF right_count > left_count THEN "left"
             ELSE "forward"

\* choose_direction_from_obstacles(obstacles, frame_width): a direction, or
\* "ValueError" when it raises.
ChooseDirection(obstacle_list, width) ==
    IF width <= 0 THEN "ValueError"
    ELSE IF obstacle_list = <<>> THEN "forward"
    ELSE LET counts == ChooseLoop(obstacle_list, 1, width, 0, 0)
         IN  IF counts.left_count > counts.right_count THEN "right"
             ELSE IF counts.right_count > counts.left_count THEN "left"
             ELSE "forward"

\* (mutant) a width of 0 is accepted
NavInitOutcome_NonNegative(width) == IF width < 0 THEN "ValueError" ELSE "ok"

\* NavigationAssistant.__init__: "ValueError" when it raises.
NavInitOutcome(width) == IF width <= 0 THEN "ValueError" ELSE "ok"

GuidanceResult(direction, obstacles) == [direction |-> direction, obstacles |-> obstacles]

\* DummyAudioOutput.speak: the message is appended to the ordered log.
Speak(log, message) == Append(log, message)

RECURSIVE SpeakAll(_, _, _)
SpeakAll(log, msgs, i) ==
    IF i > Len(msgs) THEN log ELSE SpeakAll(Speak(log, msgs[i]), msgs, i + 1)

\* DummyObstacleDetector.detect: the predefined obstacles.
DetectObstacles == in_obstacles

\* NavigationAssistant.process_frame, as a state change.
NavigationProcessFrame ==
    LET obstacles == DetectObstacles
        direction == ComputeGuidance(obstacles, frame_width)
    IN  /\ messages' = Speak(messages, direction)
        /\ mark' = Len(messages)
        /\ nresult' = Some(GuidanceResult(direction, obstacles))

(* Inputs of the navigation specification *)

MaxCoord == 2
MaxObstacles == 2
MaxWidth == 4
MaxMessages == 2

Boxes == {<<l, 0, r, 0>> : l \in 0..MaxCoord, r \in 0..MaxCoord}

ObstacleSeqs == SeqsUpTo({Obstacle(b, "chair", 91) : b \in Boxes}, MaxObstacles)

Widths == (-1)..MaxWidth

\* NavigationAssistant(camera, DummyObstacleDetector(in_obstacles), audio, in_width)
NewNavigationAssistant ==
    /\ nstatus = "new"
    /\ nstatus' = NavInitOutcome(in_width)
    /\ frame_width' = IF NavInitOutcome(in_width) = "ok" THEN in_width ELSE frame_width
    /\ UNCHANGED <<in_obstacles, in_width, nresult, fresult>>
    /\ UNCHANGED <<voiceVars, scriptVars, readVars, objVars, audioVars, demoVars>>

\* navigation_assistant.process_frame()
NavProcessFrame ==
    /\ nstatus = "ok"
    /\ pc = "idle"
    /\ Len(messages) < MaxMessages
    /\ NavigationProcessFrame
    /\ UNCHANGED <<in_obstacles, in_width, nstatus, frame_width, fresult>>
    /\ UNCHANGED <<voiceVars, scriptVars, readVars, objVars, demoVars>>

\* choose_direction_from_obstacles(in_obstacles, in_width)
CallChooseDirection ==
    /\ pc = "idle"
    /\ fresult' = Some(ChooseDirection(in_obstacles, in_width))
    /\ UNCHANGED <<in_obstacles, in_width, nstatus, frame_width, nresult>>
    /\ UNCHANGED <<voiceVars, scriptVars, readVars, objVars, audioVars, demoVars>>

----------------------------------------------------------------------------
(* reading_module.py *)

ReadingResult(text) == [text |-> text]

\* (mutant) the fallback is spoken whatever it is
ReadingAnnouncement_AnyFallback(text, fallback) ==
    IF text # "" THEN <<text>>
    ELSE IF fallback # None THEN <<fallback[1]>>
    ELSE <<>>

\* What ReadingAssistant.process_frame speaks for the stripped text.
ReadingAnnouncement(text, fallback) ==
    IF text # "" THEN <<text>>
    ELSE IF Truthy(fallback) THEN <<fallback[1]>>
    ELSE <<>>

\* DummyOcrEngine.extract_text: the predefined text.
ExtractText == ocr_text

\* ReadingAssistant.process_frame, as a state change.
ReadingProcessFrame ==
    LET text == StrStrip(ExtractText)
    IN  /\ messages' = SpeakAll(messages, ReadingAnnouncement(text, fallback_message), 1)
        /\ mark' = Len(messages)
        /\ rresult' = Some(ReadingResult(text))

(* Inputs of the reading specification *)

MaxOcrPieces == 3

OcrPieces == {"Exit", " ", "\t\n", "Room 2"}

OcrTexts == Concats(OcrPieces, MaxOcrPieces)

DefaultFallback == Some("no text detected")

Fallbacks == {None, Some(""), DefaultFallback, Some(" ")}

\* reading_assistant.process_frame()
ReadProcessFrame ==
    /\ pc = "idle"
    /\ Len(messages) < MaxMessages
    /\ ReadingProcessFrame
    /\ UNCHANGED <<ocr_text, fallback_message>>
    /\ UNCHANGED <<voiceVars, scriptVars, navVars, objVars, demoVars>>

----------------------------------------------------------------------------
(* object_detection.py *)

DetectedObject(label, bbox, confidence) ==
    [label |-> label, bbox |-> bbox, confidence |-> confidence]

DetectionResult(objs) == [objects |-> objs]

\* (mutant) the labels are spoken as one message
Announce_Joined(objs) ==
    IF objs = <<>> THEN <<"no objects detected">>
    ELSE <<StrJoin(", ", [i \in 1..Len(objs) |-> objs[i].label])>>

\* What ObjectDetectionAssistant._announce speaks.
Announce(objs) ==
    IF objs = <<>> THEN <<"no objects detected">>
    ELSE [i \in 1..Len(objs) |-> objs[i].label]

\* DummyObjectDetector.detect: the predefined objects.
DetectObjects == objects

\* ObjectDetectionAssistant.process_frame, as a state change.
ObjectProcessFrame ==
    LET objs == DetectObjects
    IN  /\ messages' = SpeakAll(messages, Announce(objs), 1)
        /\ mark' = Len(messages)
        /\ oresult' = Some(DetectionResult(objs))

----------------------------------------------------------------------------
(* main.py *)

\* build_navigation_assistant's fixture
DemoObstacles ==
    << Obstacle(<<20, 0, 80, 60>>, "chair", 91),
       Obstacle(<<200, 0, 260, 80>>, "desk", 87) >>

DemoFrameWidth == 320

\* build_object_detection_assistant's fixture
DemoObjects ==
    << DetectedObject("person", <<10, 10, 100, 200>>, 95),
       DetectedObject("book", <<140, 40, 220, 120>>, 89) >>

\* build_reading_assistant's fixture
DemoOcrText == "Welcome to the campus library"

\* The if/elif chain of run_demo: the assistant whose process_frame runs.
Route(mode) ==
    IF mode = "navigation" THEN Some("navigation_assistant")
    ELSE IF mode = "object_detection" THEN Some("object_detection_assistant")
    ELSE IF mode = "reading" THEN Some("reading_assistant")
    ELSE None

\* One iteration of the loop of run_demo: listen_and_handle, then the routed
\* assistant's process_frame.
DemoIteration ==
    /\ pc = "loop"
    /\ iter < Len(transcripts)
    /\ Handle(Listen)
    /\ index' = ListenIndex
    /\ iter' = iter + 1
    /\ LET routed == Route(active_mode')
       IN  IF routed = Some("navigation_assistant")
           THEN NavigationProcessFrame /\ UNCHANGED <<rresult, oresult>>
           ELSE IF routed = Some("object_detection_assistant")
           THEN ObjectProcessFrame /\ UNCHANGED <<nresult, rresult>>
           ELSE IF routed = Some("reading_assistant")
           THEN ReadingProcessFrame /\ UNCHANGED <<nresult, oresult>>
           ELSE UNCHANGED <<nresult, rresult, oresult, audioVars>>
    /\ UNCHANGED <<transcripts, pc, in_obstacles, in_width, nstatus, frame_width, fresult,
                   ocr_text, fallback_message, objects>>

\* run_demo returns audio.messages once the loop has run len(transcripts) times.
DemoReturn ==
    /\ pc = "loop"
    /\ iter >= Len(transcripts)
    /\ pc' = "done"
    /\ UNCHANGED <<iter, voiceVars, scriptVars, navVars, readVars, objVars, audioVars>>

\* The state run_demo(script) is in when its loop starts.
InitDemo ==
    /\ transcripts \in DemoScripts
    /\ index = 0
    /\ phrases_by_mode = DefaultPhrases
    /\ active_mode = "navigation"
    /\ vstatus = ConstructOutcome(DefaultPhrases, "navigation")
    /\ ctor_args = Some([keys |-> Keys(DefaultPhrases), initial_mode |-> "navigation"])
    /\ vresult = None
    /\ prior_mode = "navigation"
    /\ in_obstacles = DemoObstacles
    /\ in_width = DemoFrameWidth
    /\ nstatus = NavInitOutcome(DemoFrameWidth)
    /\ frame_width = DemoFrameWidth
    /\ nresult = None
    /\ fresult = None
    /\ ocr_text = DemoOcrText
    /\ fallback_message = DefaultFallback
    /\ rresult = None
    /\ objects = DemoObjects
    /\ oresult = None
    /\ messages = <<>>
    /\ mark = 0
    /\ pc = "loop"
    /\ iter = 0

NextDemo == DemoIteration \/ DemoReturn

SpecDemo == InitDemo /\ [][NextDemo]_vars

----------------------------------------------------------------------------
(* Specifications of the single components *)

NavIdle ==
    /\ in_obstacles = <<>>
    /\ in_width = 0
    /\ nstatus = "new"
    /\ frame_width = 0
    /\ nresult = None
    /\ fresult = None

ReadIdle == ocr_text = "" /\ fallback_message = None /\ rresult = None

ObjIdle == objects = <<>> /\ oresult = None

AudioIdle == messages = <<>> /\ mark = 0

DemoIdle == pc = "idle" /\ iter = 0

InitRead ==
    /\ ocr_text \in OcrTexts
    /\ fallback_message \in Fallbacks
    /\ rresult = None
    /\ VoiceIdle /\ ScriptIdle /\ NavIdle /\ ObjIdle /\ AudioIdle /\ DemoIdle

NextRead == ReadProcessFrame

SpecRead == InitRead /\ [][NextRead]_vars

InitNav ==
    /\ in_obstacles \in ObstacleSeqs
    /\ in_width \in Widths
    /\ nstatus = "new"
    /\ frame_width = 0
    /\ nresult = None
    /\ fresult = None
    /\ VoiceIdle /\ ScriptIdle /\ ReadIdle /\ ObjIdle /\ AudioIdle /\ DemoIdle

NextNav == NewNavigationAssistant \/ NavProcessFrame \/ CallChooseDirection

SpecNav == InitNav /\ [][NextNav]_vars

InitVoice == VoiceIdle /\ ScriptIdle /\ NavIdle /\ ReadIdle /\ ObjIdle /\ AudioIdle /\ DemoIdle

NextVoice == NewVoiceAssistant \/ HandleTranscript \/ ListenAndHandle

SpecVoice == InitVoice /\ [][NextVoice]_vars

----------------------------------------------------------------------------
(* Properties of the voice assistant (SpecVoice) *)

\* The normalized form of a transcript as the specification words it: lowercased,
\* every run of whitespace collapsed to one space, trimmed.
RECURSIVE CollapseFrom(_, _)
CollapseFrom(s, i) ==
    IF i > Len(s) THEN ""
    ELSE IF ~IsSpace(CharAt(s, i)) THEN CharAt(s, i) \o CollapseFrom(s, i + 1)
    ELSE IF i > 1 /\ IsSpace(CharAt(s, i - 1)) THEN CollapseFrom(s, i + 1)
    ELSE " " \o CollapseFrom(s, i + 1)

NormalForm(s) ==
    LET c == CollapseFrom(StrLower(s), 1)
        first == IF c # "" /\ CharAt(c, 1) = " " THEN 2 ELSE 1
        last == IF c # "" /\ CharAt(c, Len(c)) = " " THEN Len(c) - 1 ELSE Len(c)
    IN  SubSeq(c, first, last)

\* The entries of a table that have a phrase contained in the normal form of a
\* transcript, for every table and transcript of the model (evaluated once).
HitEntries ==
    [table \in Tables, transcript \in KnownTranscripts |->
        {k \in 1..Len(table) :
            \E j \in 1..Len(table[k].phrases) :
                StrContains(NormalForm(transcript), table[k].phrases[j])}]

Dispatched == vstatus = "ok" /\ vresult # None

Hits == HitEntries[phrases_by_mode, vresult[1].transcript]

MinOf(S) == CHOOSE k \in S : \A m \in S : k <= m

\* C1 as stated: whenever the normalized transcript contains a configured phrase,
\* the matched mode and the active mode afterwards are that phrase's mode.
C1_AsStated ==
    Dispatched =>
        \A k \in Hits :
            /\ vresult[1].matched_command = Some(phrases_by_mode[k].mode)
            /\ active_mode = phrases_by_mode[k].mode

\* C1, amended: whenever the normalized transcript contains a configured phrase, the
\* matched mode is the mode of one of the contained phrases (so that phrase's mode when
\* all contained phrases belong to one mode), and the active mode and the returned
\* active_mode equal the matched mode afterwards.
C1_MatchedModeIsAContainedPhrasesMode ==
    (Dispatched /\ Hits # {}) =>
        \E k \in Hits :
            /\ vresult[1].matched_command = Some(phrases_by_mode[k].mode)
            /\ active_mode = phrases_by_mode[k].mode
            /\ vresult[1].active_mode = phrases_by_mode[k].mode

\* A dispatch of a transcript that normalization changed, matching one entry only,
\* that switched the mode.
C1_Witness ==
    /\ Dispatched
    /\ Cardinality(Hits) = 1
    /\ vresult[1].transcript # NormalForm(vresult[1].transcript)
    /\ active_mode # prior_mode
    /\ active_mode = phrases_by_mode[MinOf(Hits)].mode

\* C2: a dispatch of a transcript whose normalized form contains no configured phrase
\* leaves the active mode as it was, returns matched_command None and returns the
\* prior mode as active_mode, whatever dispatches came before.
C2_NoMatchLeavesModeUnchanged ==
    (Dispatched /\ Hits = {}) =>
        /\ active_mode = prior_mode
        /\ vresult[1].matched_command = None
        /\ vresult[1].active_mode = prior_mode

\* An unmatched, non-empty transcript dispatched after an earlier dispatch had moved
\* the assistant away from its initial mode.
C2_Witness ==
    /\ Dispatched
    /\ Hits = {}
    /\ NormalForm(vresult[1].transcript) # ""
    /\ prior_mode = "reading"
    /\ ctor_args[1].initial_mode = "navigation"
    /\ active_mode = "reading"

\* C9: with phrases of several modes in the normalized transcript the matched mode is
\* the one first in the table's iteration order, wherever the phrases occur in the
\* transcript; with the default table a transcript containing "reading" and
\* "navigation" makes navigation the active mode.
C9_FirstModeInTableOrderWins ==
    Dispatched =>
        /\ Hits # {} =>
            /\ vresult[1].matched_command = Some(phrases_by_mode[MinOf(Hits)].mode)
            /\ active_mode = phrases_by_mode[MinOf(Hits)].mode
        /\ ( /\ phrases_by_mode = DefaultPhrases
             /\ StrContains(NormalForm(vresult[1].transcript), "reading")
             /\ StrContains(NormalForm(vresult[1].transcript), "navigation") )
           => active_mode = "navigation"

\* The default table, "reading" ahead of "navigation" in the transcript, and the
\* assistant, in reading mode before, now in navigation mode.
C9_Witness ==
    /\ Dispatched
    /\ phrases_by_mode = DefaultPhrases
    /\ NormalForm(vresult[1].transcript) = "reading navigation"
    /\ Cardinality(Hits) = 2
    /\ prior_mode = "reading"
    /\ active_mode = "navigation"

\* C10: construction raises ValueError exactly for an initial mode or a table key
\* outside the mode set; a constructed assistant's active mode is always one of the
\* three modes, also after listening to an exhausted transcript source, so the
\* run_demo routing selects one assistant.
C10_ActiveModeAlwaysSupported ==
    /\ vstatus # "new" =>
        (vstatus = "ValueError" <=>
            \/ ctor_args[1].initial_mode \notin ModeSet
            \/ \E k \in 1..Len(ctor_args[1].keys) : ctor_args[1].keys[k] \notin ModeSet)
    /\ vstatus = "ok" =>
        /\ active_mode \in ModeSet
        /\ Route(active_mode) # None
        /\ (vresult # None => vresult[1].active_mode \in ModeSet)

\* The script has been listened to the end and a further transcript, the empty
\* one, dispatched, with the assistant in a mode reached by an earlier match.
C10_Witness ==
    /\ vstatus = "ok"
    /\ transcripts # <<>>
    /\ index = Len(transcripts)
    /\ vresult # None
    /\ vresult[1].transcript = ""
    /\ vresult[1].matched_command = None
    /\ active_mode = "reading"
    /\ ctor_args[1].initial_mode = "object_detection"

----------------------------------------------------------------------------
(* Properties of the guidance heuristic (SpecNav) *)

\* bbox[0] + bbox[2] of an obstacle: twice its horizontal center.
TwiceCenter(obstacle) == obstacle.bbox[1] + obstacle.bbox[3]

LeftSide(obstacles, width) ==
    {i \in 1..Len(obstacles) : TwiceCenter(obstacles[i]) < width}

RightSide(obstacles, width) ==
    {i \in 1..Len(obstacles) : TwiceCenter(obstacles[i]) >= width}

\* The direction the rule of the specification gives.
RuleDirection(obstacles, width) ==
    IF Cardinality(LeftSide(obstacles, width)) > Cardinality(RightSide(obstacles, width))
    THEN "right"
    ELSE IF Cardinality(RightSide(obstacles, width)) > Cardinality(LeftSide(obstacles, width))
    THEN "left"
    ELSE "forward"

Processed == nstatus = "ok" /\ nresult # None

Chosen == fresult # None

\* The last operation's emissions.
Emitted == SubSeq(messages, mark + 1, Len(messages))

EqualCounts ==
    Cardinality(LeftSide(in_obstacles, in_width)) = Cardinality(RightSide(in_obstacles, in_width))

\* exactly one obstacle, its center (left + right) / 2 equal to frame_width / 2
SingleCentered ==
    /\ Len(in_obstacles) = 1
    /\ in_width > 0
    /\ TwiceCenter(in_obstacles[1]) = in_width

\* C3 as stated: equal counts give forward, and a single obstacle centered on the
\* midpoint gives forward in both forms.
C3_AsStated ==
    /\ (EqualCounts /\ Processed) => nresult[1].direction = "forward"
    /\ (EqualCounts /\ Chosen /\ in_width > 0) => fresult = Some("forward")
    /\ (SingleCentered /\ Processed) => nresult[1].direction = "forward"
    /\ (SingleCentered /\ Chosen) => fresult = Some("forward")

\* C3, amended: equal counts give forward in both forms; a single obstacle centered
\* on the midpoint is counted right-side (its center is not less than the
\* midpoint), the counts are 0 and 1, and both forms return left.
C3_EqualCountsForwardCenteredLeft ==
    /\ (EqualCounts /\ Processed) => nresult[1].direction = "forward"
    /\ (EqualCounts /\ Chosen /\ in_width > 0) => fresult = Some("forward")
    /\ SingleCentered =>
        /\ ~EqualCounts
        /\ Processed => nresult[1].direction = "left"
        /\ Chosen => fresult = Some("left")

\* One obstacle centered on the midpoint, handled by both forms.
C3_Witness ==
    /\ SingleCentered
    /\ Processed
    /\ Chosen
    /\ nresult[1].direction = "left"
    /\ fresult = Some("left")

\* C4: the direction process_frame speaks and returns is the value
\* choose_direction_from_obstacles returns for the same obstacles and frame_width.
C4_MethodAgreesWithFreeFunction ==
    /\ Processed =>
        /\ nresult[1].direction = ChooseDirection(nresult[1].obstacles, frame_width)
        /\ Emitted = <<nresult[1].direction>>
    /\ (Processed /\ Chosen) => fresult = Some(nresult[1].direction)

\* Two obstacles on the right, both forms run, both answering left.
C4_Witness ==
    /\ Processed
    /\ Chosen
    /\ Len(in_obstacles) = 2
    /\ nresult[1].direction = "left"
    /\ fresult = Some("left")
    /\ Emitted = <<"left">>

\* C5: for frame_width <= 0 the constructor raises ValueError, so that no direction
\* is computed or spoken, and the free function raises ValueError, whatever the
\* obstacles, the empty sequence included.
C5_NonPositiveWidthRejected ==
    in_width <= 0 =>
        /\ nstatus \in {"new", "ValueError"}
        /\ nresult = None
        /\ messages = <<>>
        /\ Chosen => fresult = Some("ValueError")

\* A width of 0 and no obstacle: both forms have raised.
C5_Witness ==
    /\ in_width = 0
    /\ in_obstacles = <<>>
    /\ nstatus = "ValueError"
    /\ fresult = Some("ValueError")

\* C8: for a positive frame_width an obstacle is left-side exactly when
\* left + right < frame_width; the direction is right when the left-side count is
\* greater, left when the right-side count is greater, forward when they are equal
\* (so forward for no obstacle, right for one obstacle left of the midpoint).
C8_DirectionFollowsSideCounts ==
    /\ Processed => nresult[1].direction = RuleDirection(nresult[1].obstacles, frame_width)
    /\ (Chosen /\ in_width > 0) => fresult = Some(RuleDirection(in_obstacles, in_width))
    /\ (in_obstacles = <<>> /\ in_width > 0) =>
        /\ Processed => nresult[1].direction = "forward"
        /\ Chosen => fresult = Some("forward")
    /\ (Len(in_obstacles) = 1 /\ in_width > 0 /\ TwiceCenter(in_obstacles[1]) < in_width) =>
        /\ Processed => nresult[1].direction = "right"
        /\ Chosen => fresult = Some("right")

\* One obstacle whose center is half a pixel left of the midpoint of an odd width.
C8_Witness ==
    /\ Processed
    /\ Chosen
    /\ Len(in_obstacles) = 1
    /\ TwiceCenter(in_obstacles[1]) + 1 = in_width
    /\ in_width % 2 = 1
    /\ nresult[1].direction = "right"
    /\ fresult = Some("right")

----------------------------------------------------------------------------
(* Properties of the reading assistant (SpecRead) *)

AllSpace(s) == \A i \in 1..Len(s) : IsSpace(CharAt(s, i))

\* t is s without its leading and trailing whitespace.
IsTrimOf(t, s) ==
    \E a \in 1..(Len(s) + 1), b \in 0..Len(s) :
        /\ t = SubSeq(s, a, b)
        /\ AllSpace(SubSeq(s, 1, a - 1))
        /\ AllSpace(SubSeq(s, b + 1, Len(s)))
        /\ t # "" => (~IsSpace(CharAt(t, 1)) /\ ~IsSpace(CharAt(t, Len(t))))

Read == rresult # None

\* C7 as stated: for every configuration, empty or whitespace-only OCR text makes
\* process_frame emit the fallback message; it never emits the empty string; and a
\* non-empty trimmed text is emitted alone.
C7_AsStated ==
    Read =>
        /\ AllSpace(ocr_text) =>
            (fallback_message # None /\ Emitted = <<fallback_message[1]>>)
        /\ \A i \in 1..Len(Emitted) : Emitted[i] # ""
        /\ ~AllSpace(ocr_text) => (Len(Emitted) = 1 /\ IsTrimOf(Emitted[1], ocr_text))

\* C7, amended: when the OCR text is empty or whitespace-only, process_frame emits
\* the fallback message if that is a non-empty string and emits nothing if the
\* fallback is None or empty; it never emits the empty string; when the trimmed text
\* is non-empty it emits exactly that trimmed text, which is also the text returned.
C7_FallbackWhenConfiguredNeverEmpty ==
    Read =>
        /\ (AllSpace(ocr_text) /\ fallback_message # None /\ fallback_message[1] # "") =>
            Emitted = <<fallback_message[1]>>
        /\ (AllSpace(ocr_text) /\ (fallback_message = None \/ fallback_message = Some(""))) =>
            Emitted = <<>>
        /\ \A i \in 1..Len(messages) : messages[i] # ""
        /\ ~AllSpace(ocr_text) =>
            /\ Len(Emitted) = 1
            /\ IsTrimOf(Emitted[1], ocr_text)
            /\ rresult[1].text = Emitted[1]

\* Whitespace-only OCR text read under the default fallback, after a frame had
\* already been read.
C7_Witness ==
    /\ Read
    /\ ocr_text # ""
    /\ AllSpace(ocr_text)
    /\ fallback_message = DefaultFallback
    /\ mark = 1
    /\ messages = <<"no text detected", "no text detected">>

----------------------------------------------------------------------------
(* Properties of run_demo (SpecDemo) *)

DemoScenario ==
    <<"switch to navigation", "switch to object detection", "switch to reading">>

Returned == pc = "done"

\* C6 as stated: the scenario's audio log holds exactly three messages: the direction
\* forward, then "person" and "book", then the library text.
C6_AsStated ==
    (Returned /\ transcripts = DemoScenario) =>
        /\ Len(messages) = 3
        /\ messages[1] = "forward"
        /\ \E i, j, k \in 1..Len(messages) :
            /\ 1 < i /\ i < j /\ j < k
            /\ messages[i] = "person"
            /\ messages[j] = "book"
            /\ messages[k] = "Welcome to the campus library"

\* C6, amended: the scenario's audio log holds exactly four messages, in this order:
\* "forward", "person", "book", "Welcome to the campus library".
C6_ScenarioLogHasFourMessages ==
    (Returned /\ transcripts = DemoScenario) =>
        messages = <<"forward", "person", "book", "Welcome to the campus library">>

\* run_demo has returned from the scenario, the assistant ending in reading mode.
C6_Witness ==
    /\ Returned
    /\ transcripts = DemoScenario
    /\ iter = 3
    /\ active_mode = "reading"
    /\ Len(messages) = 4

====
